---- MODULE Spec2Model ----
(***************************************************************************)
(* Retrieval-augmented query engine: the ingestion pipeline, the vector    *)
(* store on one PostgreSQL database reached through psycopg connections,   *)
(* and the corpus seeder guarded by a session-level advisory lock.         *)
(*                                                                         *)
(* A process owns one connection (the db_session handed to RAGPipeline and *)
(* to seed_corpus).  psycopg opens a transaction with the first statement  *)
(* executed on an idle connection and keeps it open until conn.commit();   *)
(* the code never calls rollback.                                          *)
(***************************************************************************)
EXTENDS Integers, Sequences, FiniteSets, TLC

(* ---------------------------- bounds ----------------------------------- *)
\* settings.chunk_size / settings.chunk_overlap, scaled down from 500 / 50
chunk_size == 6
chunk_overlap == 1
\* the length a chunk must exceed to survive, scaled down from 50
MinChunkLen == 1
\* the row count at which ingest_document rebuilds the index, scaled from 1000
IndexThreshold == 3
\* fresh document ids (uuid4) handed out before the model stops ingesting
MaxDocs == 2
\* seed_corpus_if_empty calls started in one behaviour
MaxSeedCalls == 2
\* readings of the database clock
MaxClock == 1

Procs == {"p1", "p2"}
NoProc == "none"
SEED_LOCK_ID == 1

(* ---------------------------- texts ------------------------------------ *)
\* "a": chunks to nothing (its only window is not longer than MinChunkLen)
TextTiny == <<"a">>
\* "ab.": one chunk
TextOne == <<"a", "b", ".">>
\* "abcd. efgh": the first window is cut after the '.', two chunks survive
TextTwo == <<"a", "b", "c", "d", ".", " ", "e", "f", "g", "h">>
Texts == {TextTiny, TextOne, TextTwo}

\* data/sample_documents.json: the contents of the sample documents
Corpora == {<<TextTwo, TextOne>>, <<TextOne>>, <<TextTiny>>}

(* ---------------------------- chunker ---------------------------------- *)
Min(a, b) == IF a < b THEN a ELSE b
Max(a, b) == IF a > b THEN a ELSE b

\* where a slice bound a falls in s: a negative bound counts from the end,
\* and every bound is clamped to 0..len(s)
Index(s, a) == IF a < 0 THEN Max(Len(s) + a, 0) ELSE Min(a, Len(s))

\* s[a:b]
Slice(s, a, b) == SubSeq(s, Index(s, a) + 1, Index(s, b))

\* str.rfind(ch): 0-based index of the last occurrence, -1 when absent
RFind(s, ch) ==
    LET hits == {i \in 1..Len(s) : s[i] = ch}
    IN  IF hits = {} THEN -1
        ELSE (CHOOSE i \in hits : \A j \in hits : j <= i) - 1

IsSpace(ch) == ch \in {" ", "\n", "\t"}

\* str.strip()
Strip(s) ==
    LET keep == {i \in 1..Len(s) : ~IsSpace(s[i])}
    IN  IF keep = {} THEN <<>>
        ELSE SubSeq(s, CHOOSE i \in keep : \A j \in keep : i <= j,
                       CHOOSE i \in keep : \A j \in keep : j <= i)

\* [c for c in chunks if c and len(c) > m]
RECURSIVE KeepLongerThan(_, _)
KeepLongerThan(cs, m) ==
    IF cs = <<>> THEN <<>>
    ELSE LET c == Head(cs)
         IN  IF c # <<>> /\ Len(c) > m
             THEN <<c>> \o KeepLongerThan(Tail(cs), m)
             ELSE KeepLongerThan(Tail(cs), m)

\* chunks = [c for c in chunks if c and len(c) > 50]
KeepLong(cs) == KeepLongerThan(cs, MinChunkLen)

\* faulty variant: the next window starts one character after this one ended
Window_skips(text, start, size, overlap) ==
    LET end0 == start + size
        chunk0 == Slice(text, start, end0)
        break_point == Max(RFind(chunk0, "."), RFind(chunk0, "\n"))
        cut == end0 < Len(text) /\ break_point > size \div 2
        chunk == IF cut THEN Slice(chunk0, 0, break_point + 1) ELSE chunk0
        end == IF cut THEN start + break_point + 1 ELSE end0
    IN  [start |-> start, lo |-> Index(text, start), raw |-> chunk,
         chunk |-> Strip(chunk), end |-> end, next |-> end + 1]

\* faulty variant: the next window starts where this one ended
Window_no_overlap(text, start, size, overlap) ==
    LET end0 == start + size
        chunk0 == Slice(text, start, end0)
        break_point == Max(RFind(chunk0, "."), RFind(chunk0, "\n"))
        cut == end0 < Len(text) /\ break_point > size \div 2
        chunk == IF cut THEN Slice(chunk0, 0, break_point + 1) ELSE chunk0
        end == IF cut THEN start + break_point + 1 ELSE end0
    IN  [start |-> start, lo |-> Index(text, start), raw |-> chunk,
         chunk |-> Strip(chunk), end |-> end, next |-> end]

\* chunks.append(chunk.strip()); start = end - overlap
Appended(text, start, overlap, chunk, end) ==
    [start |-> start, lo |-> Index(text, start), raw |-> chunk,
     chunk |-> Strip(chunk), end |-> end, next |-> end - overlap]

\* one iteration of the while loop of _chunk_text on the window that starts
\* at start: the chunk appended (raw: before strip; lo: where it begins in
\* text), the window's end and the next window's start
Window(text, start, size, overlap) ==
    LET end0 == start + size
        chunk0 == Slice(text, start, end0)
        break_point == Max(RFind(chunk0, "."), RFind(chunk0, "\n"))
        cut == end0 < Len(text) /\ break_point > size \div 2
        chunk == IF cut THEN Slice(chunk0, 0, break_point + 1) ELSE chunk0
        end == IF cut THEN start + break_point + 1 ELSE end0
    IN  Appended(text, start, overlap, chunk, end)

\* the while loop of _chunk_text
RECURSIVE ChunkLoop(_, _, _)
RECURSIVE Iterate(_, _, _)
ChunkLoop(text, start, chunks) ==
    IF ~(start < Len(text)) THEN chunks
    ELSE Iterate(text, chunks, Window(text, start, chunk_size, chunk_overlap))

\* the loop goes on with the chunk of window w appended
Iterate(text, chunks, w) == ChunkLoop(text, w.next, Append(chunks, w.chunk))

_chunk_text(text) == KeepLong(ChunkLoop(text, 0, <<>>))

(* ---------------------------- chunker inputs --------------------------- *)
\* windows of one _chunk_text call the model keeps a record of
MaxWindows == 8

\* "abcd.efgh": as TextTwo, without the blank
TextDense == <<"a", "b", "c", "d", ".", "e", "f", "g", "h">>
\* "ab  cd": blanks at the edges of the windows
TextBlanks == <<"a", "b", " ", " ", "c", "d">>

Letters == <<"a", "b", "c", "d", "e", "f", "g">>
\* a document of 1200 characters without a sentence end, newline or blank
Text1200 == [i \in 1..1200 |-> Letters[(i % 7) + 1]]
\* the same document with a '.' as its 261st character
Text1200Dot == [i \in 1..1200 |-> IF i = 261 THEN "." ELSE Letters[(i % 7) + 1]]

\* settings.chunk_size, settings.chunk_overlap and the minimum length
DefaultConfig == [chunk_size |-> 500, overlap |-> 50, min_len |-> 50]

\* the configurations with 0 <= overlap < chunk_size up to the bound
SmallConfigs ==
    {c \in [chunk_size : 1..chunk_size, overlap : 0..(chunk_size - 1),
            min_len : {MinChunkLen}] : c.overlap < c.chunk_size}

\* the calls of _chunk_text: text and configuration
ChunkCalls ==
    {[text |-> t, cfg |-> c] :
        t \in Texts \cup {TextDense, TextBlanks}, c \in SmallConfigs}

\* "abcdefghijklmno": three windows, three chunks
TextLong == <<"a", "b", "c", "d", "e", "f", "g", "h", "i", "j", "k", "l", "m",
              "n", "o">>

\* how far below 0 the model follows a start that moves backwards
MaxBack == 12

\* the configurations with chunk_size > 0 and overlap >= 0 up to the bound,
\* overlap = chunk_size and overlap > chunk_size included
AnyConfigs ==
    [chunk_size : 1..chunk_size, overlap : 0..(chunk_size + 1),
     min_len : {MinChunkLen}]

\* the calls of _chunk_text under any such configuration
AnyCalls ==
    {[text |-> t, cfg |-> c] : t \in {TextTiny, TextTwo, TextBlanks},
                               c \in AnyConfigs}

\* the calls on a 1200-character document under the default configuration
DocumentCalls ==
    {[text |-> t, cfg |-> DefaultConfig] : t \in {Text1200, Text1200Dot}}

(* ---------------------------- state ------------------------------------ *)
VARIABLES
    store,          \* committed rows of document_chunks
    indexExists,    \* idx_document_chunks_embedding exists (committed)
    conn,           \* per process: the psycopg connection it works on
    now,            \* the database clock
    lockHolder,     \* session holding advisory lock SEED_LOCK_ID, or NoProc
    nextDoc,        \* the next fresh document id
    corpus,         \* the sample documents
    pc,             \* per process: position inside seed_corpus_if_empty
    docIdx,         \* per process: index of the sample document being seeded
    ingested_count, \* per process: seed_corpus's counter / return value
    curCall,        \* per process: index in seedLog of its running seed call
    seedLog,        \* history: one record per seed_corpus_if_empty call
    docChunks,      \* history: chunks handed to batch_add_chunks, per document
    docMeta,        \* history: the caller's metadata, per document
    last,           \* history: the latest pipeline call and what it returned
    qlast,          \* history: the latest query-side call and what it returned
    ck              \* the chunking loop in progress: its locals

vars == <<store, indexExists, conn, now, lockHolder, nextDoc, corpus, pc,
          docIdx, ingested_count, curCall, seedLog, docChunks, docMeta, last,
          qlast, ck>>

DocIds == 1..MaxDocs

(* ---------------------------- connection ------------------------------- *)
IdleConn == [status |-> "IDLE", pending |-> {}, start |-> 0, drop |-> FALSE]

\* psycopg sends BEGIN before the first statement of an idle connection;
\* CURRENT_TIMESTAMP is the start time of that transaction
Begin(c) ==
    IF c.status = "IDLE" THEN [c EXCEPT !.status = "INTRANS", !.start = now]
    ELSE c

\* a statement the server rejects aborts the transaction: what it wrote is
\* lost and every later statement fails until the transaction ends
ServerError(c) ==
    [c EXCEPT !.status = "INERROR", !.pending = {}, !.drop = FALSE]

\* rows a statement on connection c sees (READ COMMITTED plus its own writes)
Visible(c, st) == st \cup c.pending

\* conn.commit(): publishes the open transaction; on an aborted
\* transaction the server answers COMMIT with ROLLBACK
CommitStore(c, st) == IF c.status = "INTRANS" THEN st \cup c.pending ELSE st
CommitIndex(c, ix) == IF c.status = "INTRANS" /\ c.drop THEN FALSE ELSE ix
CommitConn(c) == IdleConn

(* ---------------------------- vector store ----------------------------- *)
\* what embed_text hands back for one chunk: a vector the store accepts,
\* an exception after the retries, a vector the column rejects (the
\* response carried no "embedding": []), or a value psycopg cannot adapt
EmbedOutcomes == {"ok", "raise", "baddim", "unadaptable"}

\* the row one INSERT of batch_add_chunks writes for chunks_data[i]
Row(document_id, i, chunk_data, c) ==
    [document_id |-> document_id, chunk_index |-> i - 1,
     content |-> chunk_data.content, metadata |-> chunk_data.metadata,
     created_at |-> c.start]

\* the for loop of batch_add_chunks from chunk i on
RECURSIVE InsertLoop(_, _, _, _, _)
InsertLoop(c, document_id, chunks_data, E, i) ==
    IF i > Len(chunks_data) THEN [conn |-> c, raised |-> FALSE]
    ELSE LET c1 == Begin(c)
         IN  IF c1.status = "INERROR" THEN [conn |-> c1, raised |-> TRUE]
             ELSE IF E[i] = "unadaptable" THEN [conn |-> c1, raised |-> TRUE]
             ELSE IF E[i] = "baddim"
                  THEN [conn |-> ServerError(c1), raised |-> TRUE]
             ELSE InsertLoop(
                    [c1 EXCEPT !.pending =
                        @ \cup {Row(document_id, i, chunks_data[i], c1)}],
                    document_id, chunks_data, E, i + 1)

\* faulty variant: the connection is in autocommit, so the rows inserted before a
\* failure stay
batch_add_chunks_autocommit(c, st, ix, document_id, chunks_data, E) ==
    LET l == InsertLoop(c, document_id, chunks_data, E, 1)
    IN  [conn |-> IF l.conn.status = "INERROR" THEN l.conn
                  ELSE CommitConn(l.conn),
         store |-> CommitStore(l.conn, st),
         index |-> CommitIndex(l.conn, ix), raised |-> l.raised]

batch_add_chunks(c, st, ix, document_id, chunks_data, E) ==
    LET l == InsertLoop(c, document_id, chunks_data, E, 1)
    IN  IF l.raised
        THEN [conn |-> l.conn, store |-> st, index |-> ix, raised |-> TRUE]
        ELSE [conn |-> CommitConn(l.conn), store |-> CommitStore(l.conn, st),
              index |-> CommitIndex(l.conn, ix), raised |-> FALSE]

\* faulty variant: the connection is in autocommit, so a rejected statement
\* leaves no aborted transaction behind
get_chunk_count_autocommit(c, st, fail) ==
    LET c1 == Begin(c)
    IN  IF c1.status = "INERROR" THEN [conn |-> c1, raised |-> TRUE, count |-> 0]
        ELSE IF fail THEN [conn |-> c1, raised |-> TRUE, count |-> 0]
        ELSE [conn |-> c1, raised |-> FALSE,
              count |-> Cardinality(Visible(c1, st))]

\* fail: the server rejects the statement (timeout, cancelled query)
get_chunk_count(c, st, fail) ==
    LET c1 == Begin(c)
    IN  IF c1.status = "INERROR" THEN [conn |-> c1, raised |-> TRUE, count |-> 0]
        ELSE IF fail THEN [conn |-> ServerError(c1), raised |-> TRUE, count |-> 0]
        ELSE [conn |-> c1, raised |-> FALSE,
              count |-> Cardinality(Visible(c1, st))]

\* faulty variant: the WHERE clause compares the chunk id, so no row matches
delete_by_document_id_wrong_column(c, st, ix, document_id, fail) ==
    LET c1 == Begin(c)
    IN  IF c1.status = "INERROR"
        THEN [conn |-> c1, store |-> st, index |-> ix, raised |-> TRUE,
              deleted_count |-> 0]
        ELSE IF fail
        THEN [conn |-> ServerError(c1), store |-> st, index |-> ix,
              raised |-> TRUE, deleted_count |-> 0]
        ELSE [conn |-> CommitConn(c1), store |-> Visible(c1, st),
              index |-> CommitIndex(c1, ix), raised |-> FALSE,
              deleted_count |-> 0]

\* faulty variant: the failure comes after the commit
delete_by_document_id_late_failure(c, st, ix, document_id, fail) ==
    LET c1 == Begin(c)
        gone == {r \in Visible(c1, st) : r.document_id = document_id}
    IN  IF c1.status = "INERROR"
        THEN [conn |-> c1, store |-> st, index |-> ix, raised |-> TRUE,
              deleted_count |-> 0]
        ELSE [conn |-> CommitConn(c1), store |-> Visible(c1, st) \ gone,
              index |-> CommitIndex(c1, ix), raised |-> fail,
              deleted_count |-> IF fail THEN 0 ELSE Cardinality(gone)]

delete_by_document_id(c, st, ix, document_id, fail) ==
    LET c1 == Begin(c)
        gone == {r \in Visible(c1, st) : r.document_id = document_id}
    IN  IF c1.status = "INERROR"
        THEN [conn |-> c1, store |-> st, index |-> ix, raised |-> TRUE,
              deleted_count |-> 0]
        ELSE IF fail
        THEN [conn |-> ServerError(c1), store |-> st, index |-> ix,
              raised |-> TRUE, deleted_count |-> 0]
        ELSE [conn |-> CommitConn(c1), store |-> Visible(c1, st) \ gone,
              index |-> CommitIndex(c1, ix), raised |-> FALSE,
              deleted_count |-> Cardinality(gone)]

\* the orders ORDER BY created_at may return a set of rows in
OrderedBy(rows) ==
    {s \in [1..Cardinality(rows) -> rows] :
        /\ \A i, j \in DOMAIN s : i # j => s[i] # s[j]
        /\ \A i, j \in DOMAIN s : i < j => s[i].created_at <= s[j].created_at}

get_document_chunks(c, st, document_id, fail) ==
    LET c1 == Begin(c)
    IN  IF c1.status = "INERROR" THEN [conn |-> c1, raised |-> TRUE, rows |-> {}]
        ELSE IF fail THEN [conn |-> ServerError(c1), raised |-> TRUE, rows |-> {}]
        ELSE [conn |-> c1, raised |-> FALSE,
              rows |-> {r \in Visible(c1, st) : r.document_id = document_id}]

\* DROP INDEX IF EXISTS, SELECT COUNT(*), and above the threshold a CREATE
\* INDEX whose parameters are an int, not a sequence: psycopg raises before
\* sending it, leaving the DROP uncommitted in the open transaction
create_vector_index(c, st, ix) ==
    LET c1 == Begin(c)
        c2 == [c1 EXCEPT !.drop = ix]
        count == Cardinality(Visible(c2, st))
    IN  IF c1.status = "INERROR"
        THEN [conn |-> c1, store |-> st, index |-> ix, raised |-> TRUE]
        ELSE IF count >= IndexThreshold
        THEN [conn |-> c2, store |-> st, index |-> ix, raised |-> TRUE]
        ELSE [conn |-> CommitConn(c2), store |-> CommitStore(c2, st),
              index |-> CommitIndex(c2, ix), raised |-> FALSE]

(* ---------------------------- pipeline --------------------------------- *)
\* the texts the model ingests
IngestTexts == Texts \cup {TextLong}

\* self._chunk_text(content) for each of them, computed once
Chunks == [text \in IngestTexts |-> _chunk_text(text)]

\* metadata = metadata or {}
NoMetadata == [k \in {} |-> 0]

\* caller metadata: none, a title, and one that brings its own document_id
\* and chunk_index
Metadatas ==
    {NoMetadata, [title |-> "t"],
     [title |-> "t", document_id |-> 0, chunk_index |-> 9]}

\* faulty variant: the caller's keys are merged last and win
ChunkMetadata_caller_wins(metadata, document_id, n) ==
    metadata @@ [document_id |-> document_id, chunk_index |-> n]

\* {**metadata, 'document_id': document_id, 'chunk_index': len(chunks_data)}
ChunkMetadata(metadata, document_id, n) ==
    [document_id |-> document_id, chunk_index |-> n] @@ metadata

\* the list chunks_data built by the for loop of ingest_document
ChunksData(chunks, metadata, document_id) ==
    [i \in 1..Len(chunks) |->
        [content |-> chunks[i],
         metadata |-> ChunkMetadata(metadata, document_id, i - 1)]]

\* ingest_document(content, metadata) on connection c with fresh id
\* document_id; E[i] is what embed_text does for chunk i, countFail whether
\* the get_chunk_count after the insert fails
IngestDocument(c, st, ix, document_id, content, metadata, E, countFail) ==
    LET chunks == Chunks[content]
        same == [conn |-> c, store |-> st, index |-> ix]
    IN  IF \E i \in 1..Len(chunks) : E[i] = "raise"
        THEN same @@ [outcome |-> "raised", cause |-> "embed"]
        ELSE
        LET b == batch_add_chunks(c, st, ix, document_id,
                                  ChunksData(chunks, metadata, document_id), E)
            after == [conn |-> b.conn, store |-> b.store, index |-> b.index]
        IN  IF b.raised
            THEN after @@ [outcome |-> "raised", cause |-> "insert"]
            ELSE
            LET g == get_chunk_count(b.conn, b.store, countFail)
            IN  IF g.raised
                THEN [after EXCEPT !.conn = g.conn]
                         @@ [outcome |-> "raised", cause |-> "count"]
                ELSE IF g.count >= IndexThreshold
                THEN LET v == create_vector_index(g.conn, b.store, b.index)
                     IN  [conn |-> v.conn, store |-> v.store, index |-> v.index,
                          outcome |-> IF v.raised THEN "raised" ELSE "ok",
                          cause |-> IF v.raised THEN "index" ELSE "none"]
                ELSE [after EXCEPT !.conn = g.conn]
                         @@ [outcome |-> "ok", cause |-> "none"]

\* delete_document: True unless the store operation raised
delete_document(c, st, ix, document_id, fail) ==
    LET r == delete_by_document_id(c, st, ix, document_id, fail)
    IN  [conn |-> r.conn, store |-> r.store, index |-> r.index,
         outcome |-> IF r.raised THEN "failed" ELSE "ok",
         ret |-> ~r.raised, deleted_count |-> r.deleted_count]

\* get_document: {document_id, chunks, chunk_count}, or {} when the store
\* operation raised
get_document(c, st, document_id, fail) ==
    LET r == get_document_chunks(c, st, document_id, fail)
    IN  [conn |-> r.conn, outcome |-> IF r.raised THEN "failed" ELSE "ok",
         results |-> OrderedBy(r.rows)]

\* faulty variant: total_chunks is read from the wrong key and comes out as 0
get_stats_wrong_key(c, st, fail) ==
    LET g == get_chunk_count(c, st, fail)
    IN  [conn |-> g.conn, outcome |-> IF g.raised THEN "failed" ELSE "ok",
         total_chunks |-> 0]

\* get_stats: {total_chunks, ...}, or {} when the count raised
get_stats(c, st, fail) ==
    LET g == get_chunk_count(c, st, fail)
    IN  [conn |-> g.conn, outcome |-> IF g.raised THEN "failed" ELSE "ok",
         total_chunks |-> g.count]

\* what the latest pipeline call did: outcome is "ok", "failed" (the store
\* operation failed and the call returned its default) or "raised"; changed
\* tells whether the call changed the committed rows; follows names the call
\* ("ingest" or "delete") that the same pipeline completed on the same
\* document right before this one, follows_count the rows that call wrote or
\* removed
Event(op, p, d, outcome, cause, rb, rc, chunks, changed, follows, fc) ==
    [op |-> op, proc |-> p, doc |-> d, outcome |-> outcome, cause |-> cause,
     ret_bool |-> rb, ret_count |-> rc, chunks |-> chunks,
     changed |-> changed, follows |-> follows, follows_count |-> fc]

NoEvent ==
    Event("none", NoProc, 0, "ok", "none", FALSE, 0, <<>>, FALSE, "none", 0)

StatsEvent(p, g) ==
    Event("get_stats", p, 0, g.outcome, "none", FALSE, g.total_chunks, <<>>,
          FALSE, "none", 0)

\* the effect of one ingest_document call by p on the database
DoIngest(p, content, metadata, E, countFail) ==
    LET r == IngestDocument(conn[p], store, indexExists, nextDoc, content,
                            metadata, E, countFail)
    IN  /\ nextDoc <= MaxDocs
        /\ nextDoc' = nextDoc + 1
        /\ conn' = [conn EXCEPT ![p] = r.conn]
        /\ store' = r.store
        /\ indexExists' = r.index
        /\ docChunks' = IF r.cause = "embed" THEN docChunks
                        ELSE [docChunks EXCEPT ![nextDoc] = Chunks[content]]
        /\ docMeta' = IF r.cause = "embed" THEN docMeta
                      ELSE [docMeta EXCEPT ![nextDoc] = metadata]
        /\ last' = Event("ingest", p, nextDoc, r.outcome, r.cause, FALSE,
                         Len(Chunks[content]), <<>>, r.store # store,
                         "none", 0)

\* pipeline.ingest_document(content) called directly
Ingest(p) ==
    /\ pc[p] = "idle"
    /\ \E content \in Texts :
       \E E \in [1..Len(Chunks[content]) -> EmbedOutcomes] :
       \E countFail \in BOOLEAN :
          DoIngest(p, content, NoMetadata, E, countFail)
    /\ UNCHANGED <<now, lockHolder, corpus, pc, docIdx, ingested_count,
                   curCall, seedLog>>
    /\ UNCHANGED <<qlast, ck>>

\* pipeline.ingest_document(content, metadata) with caller metadata; the
\* embeddings are accepted
IngestWithMetadata(p) ==
    /\ pc[p] = "idle"
    /\ \E content \in IngestTexts : \E metadata \in Metadatas :
       \E countFail \in BOOLEAN :
          DoIngest(p, content, metadata,
                   [i \in 1..Len(Chunks[content]) |-> "ok"], countFail)
    /\ UNCHANGED <<now, lockHolder, corpus, pc, docIdx, ingested_count,
                   curCall, seedLog>>
    /\ UNCHANGED <<qlast, ck>>

\* pipeline.ingest_document(content) on a document of IndexThreshold chunks;
\* the embeddings are accepted
IngestLong(p) ==
    /\ pc[p] = "idle"
    /\ \E countFail \in BOOLEAN :
          DoIngest(p, TextLong, NoMetadata,
                   [i \in 1..Len(Chunks[TextLong]) |-> "ok"], countFail)
    /\ UNCHANGED <<now, lockHolder, corpus, pc, docIdx, ingested_count,
                   curCall, seedLog>>
    /\ UNCHANGED <<qlast, ck>>

\* pipeline.delete_document(document_id)
DeleteDocument(p) ==
    /\ pc[p] = "idle"
    /\ \E document_id \in DocIds : \E fail \in BOOLEAN :
       LET r == delete_document(conn[p], store, indexExists, document_id, fail)
       IN  /\ conn' = [conn EXCEPT ![p] = r.conn]
           /\ store' = r.store
           /\ indexExists' = r.index
           /\ last' = Event("delete", p, document_id, r.outcome, "none",
                            r.ret, r.deleted_count, <<>>, r.store # store,
                            "none", 0)
    /\ UNCHANGED <<now, lockHolder, nextDoc, corpus, pc, docIdx,
                   ingested_count, curCall, seedLog, docChunks, docMeta>>
    /\ UNCHANGED <<qlast, ck>>

\* pipeline.get_document(document_id)
GetDocument(p) ==
    /\ pc[p] = "idle"
    /\ \E document_id \in DocIds : \E fail \in BOOLEAN :
       LET r == get_document(conn[p], store, document_id, fail)
           follows == /\ last.op \in {"ingest", "delete"}
                      /\ last.outcome = "ok"
                      /\ last.proc = p
                      /\ last.doc = document_id
       IN  /\ conn' = [conn EXCEPT ![p] = r.conn]
           /\ \E chunks \in r.results :
                last' = Event("get_document", p, document_id, r.outcome,
                              "none", FALSE, Len(chunks), chunks, FALSE,
                              IF follows THEN last.op ELSE "none",
                              IF follows THEN last.ret_count ELSE 0)
    /\ UNCHANGED <<store, indexExists, now, lockHolder, nextDoc, corpus, pc,
                   docIdx, ingested_count, curCall, seedLog,
                   docChunks, docMeta>>
    /\ UNCHANGED <<qlast, ck>>

\* pipeline.get_stats()
GetStats(p) ==
    /\ pc[p] = "idle"
    /\ \E fail \in BOOLEAN :
       LET g == get_stats(conn[p], store, fail)
       IN  /\ conn' = [conn EXCEPT ![p] = g.conn]
           /\ last' = StatsEvent(p, g)
    /\ UNCHANGED <<store, indexExists, now, lockHolder, nextDoc, corpus, pc,
                   docIdx, ingested_count, curCall, seedLog,
                   docChunks, docMeta>>
    /\ UNCHANGED <<qlast, ck>>

\* the database clock advances
Tick ==
    /\ now < MaxClock
    /\ now' = now + 1
    /\ UNCHANGED <<store, indexExists, conn, lockHolder, nextDoc, corpus, pc,
                   docIdx, ingested_count, curCall, seedLog,
                   docChunks, docMeta, last>>
    /\ UNCHANGED <<qlast, ck>>

(* ---------------------------- retrieval and generation ----------------- *)
\* @retry(stop=stop_after_attempt(3)) on embed_text and on generate
MaxAttempts == 3
\* similarities are counted in units of 1/10000; retrieve keeps a result
\* whose similarity is above 0.1
MinSimilarity == 1000
\* the length query cuts a source's content to, scaled down from 200
SourceLen == 4
Ellipsis == <<".", ".", ".">>
\* 1 - (embedding <=> query) of a zero embedding is not a number: a value
\* outside the range of a cosine similarity stands for it
NoSim == -2 * 10000
\* The embedding model is outside the program.  Here it sorts a text into one
\* of four classes, and the similarity of a chunk to a query is read off the
\* distance between their classes: well above the threshold, just above it,
\* exactly on it, or not a number.
SimTable == <<9000, 1006, 1000, NoSim>>
EmbeddingClass(content) == Len(content) % Len(SimTable)
QueryClasses == 0..(Len(SimTable) - 1)
Similarity(qc, content) ==
    SimTable[((EmbeddingClass(content) - qc) % Len(SimTable)) + 1]
\* the top_k a caller passes (settings.top_k_results when omitted)
TopKs == {0, 1, 2}
FallbackAnswer == "I couldn't find any relevant information"

\* what one invoke_model attempt does: a usable response, an exception, or
\* (embed_text) a response without "embedding", read as []
AttemptOutcomes == {"ok", "fail"}
EmbedAttemptOutcomes == {"ok", "fail", "empty"}
\* what the attempts do while a query runs
QueryEmbedInputs == {<<"ok", "ok", "ok">>, <<"fail", "empty", "ok">>,
                     <<"fail", "fail", "fail">>}
QueryGenInputs == {<<"fail", "ok", "ok">>, <<"fail", "fail", "fail">>}

\* the attempt tenacity stops at: the first that does not raise, 0 when all
\* MaxAttempts raise
FirstReturn(outs) ==
    LET done == {i \in 1..MaxAttempts : outs[i] # "fail"}
    IN  IF done = {} THEN 0 ELSE CHOOSE i \in done : \A j \in done : i <= j

\* round(x, 3), ties to even
Round3(x) ==
    LET q == x \div 10
        r == x % 10
    IN  IF r < 5 THEN q * 10
        ELSE IF r > 5 THEN (q + 1) * 10
        ELSE IF q % 2 = 0 THEN q * 10 ELSE (q + 1) * 10

\* faulty variant: when every attempt failed, an empty embedding is returned
embed_text_default(outs) ==
    LET i == FirstReturn(outs)
    IN  IF i = 0
        THEN [calls |-> MaxAttempts, raised |-> FALSE, attempt |-> 0,
              embedding |-> "empty"]
        ELSE [calls |-> i, raised |-> FALSE, attempt |-> i,
              embedding |-> IF outs[i] = "ok" THEN "vector" ELSE "empty"]

\* embed_text under its retry decorator; outs[i] is what attempt i does
embed_text(outs) ==
    LET i == FirstReturn(outs)
    IN  IF i = 0
        THEN [calls |-> MaxAttempts, raised |-> TRUE, attempt |-> 0,
              embedding |-> "none"]
        ELSE [calls |-> i, raised |-> FALSE, attempt |-> i,
              embedding |-> IF outs[i] = "ok" THEN "vector" ELSE "empty"]

\* faulty variant: the model is invoked before the context is looked at
generate_no_guard(context_chunks, outs) ==
    LET i == FirstReturn(outs)
    IN  IF i = 0
        THEN [calls |-> MaxAttempts, raised |-> TRUE, attempt |-> 0,
              answer |-> "none"]
        ELSE [calls |-> i, raised |-> FALSE, attempt |-> i,
              answer |-> IF context_chunks = <<>> THEN FallbackAnswer
                         ELSE "generation"]

\* generate under its retry decorator; outs[i] is what attempt i does
generate(context_chunks, outs) ==
    IF context_chunks = <<>>
    THEN [calls |-> 0, raised |-> FALSE, attempt |-> 0,
          answer |-> FallbackAnswer]
    ELSE LET i == FirstReturn(outs)
         IN  IF i = 0
             THEN [calls |-> MaxAttempts, raised |-> TRUE, attempt |-> 0,
                   answer |-> "none"]
             ELSE [calls |-> i, raised |-> FALSE, attempt |-> i,
                   answer |-> "generation"]

\* ORDER BY embedding <=> query: a is not after b (a distance that is not a
\* number sorts last)
SimGE(a, b) == b = NoSim \/ (a # NoSim /\ a >= b)

\* the row as the SELECT returns it for a query of class qc
Scored(qc, row) == [chunk |-> row, similarity |-> Similarity(qc, row.content)]

\* faulty variant: no ORDER BY
similarity_search_unordered(c, st, qc, embedding, top_k, fail) ==
    LET c1 == Begin(c)
        rows == {Scored(qc, r) : r \in Visible(c1, st)}
        n == Min(top_k, Cardinality(Visible(c1, st)))
    IN  IF c1.status = "INERROR"
        THEN [conn |-> c1, raised |-> TRUE, results |-> {<<>>}]
        ELSE IF fail \/ embedding = "empty"
        THEN [conn |-> ServerError(c1), raised |-> TRUE, results |-> {<<>>}]
        ELSE [conn |-> c1, raised |-> FALSE,
              results |->
                {s \in [1..n -> rows] :
                    \A i, j \in DOMAIN s : i # j => s[i] # s[j]}]

\* similarity_search: the result lists the SELECT may return, the first
\* min(top_k, rows) rows in ORDER BY order, rows at the same distance in any
\* order.  An embedding that is not a vector of the column's dimension makes
\* the server reject the statement.
similarity_search(c, st, qc, embedding, top_k, fail) ==
    LET c1 == Begin(c)
        rows == {Scored(qc, r) : r \in Visible(c1, st)}
        n == Min(top_k, Cardinality(Visible(c1, st)))
    IN  IF c1.status = "INERROR"
        THEN [conn |-> c1, raised |-> TRUE, results |-> {<<>>}]
        ELSE IF fail \/ embedding = "empty"
        THEN [conn |-> ServerError(c1), raised |-> TRUE, results |-> {<<>>}]
        ELSE [conn |-> c1, raised |-> FALSE,
              results |->
                {s \in [1..n -> rows] :
                    /\ \A i, j \in DOMAIN s : i # j => s[i] # s[j]
                    /\ \A i, j \in DOMAIN s :
                         i < j => SimGE(s[i].similarity, s[j].similarity)
                    /\ \A r \in rows :
                         (\A i \in DOMAIN s : s[i] # r)
                         => \A i \in DOMAIN s :
                              SimGE(s[i].similarity, r.similarity)}]

\* result.get('similarity', 0)
SimOf(r) == IF r.similarity = NoSim THEN 0 ELSE r.similarity

\* faulty variant: the threshold is inclusive
FilterLow_inclusive(results) ==
    SelectSeq(results, LAMBDA r : SimOf(r) >= MinSimilarity)

\* the list comprehension of retrieve
FilterLow(results) ==
    SelectSeq(results, LAMBDA r : SimOf(r) > MinSimilarity)

\* retrieve(query, top_k): found is what similarity_search returned, chunks
\* what retrieve returns
retrieve(c, st, qc, top_k, eouts, fail) ==
    LET e == embed_text(eouts)
    IN  IF e.raised
        THEN [conn |-> c, raised |-> TRUE, embed_calls |-> e.calls,
              results |-> {[found |-> <<>>, chunks |-> <<>>]}]
        ELSE LET s == similarity_search(c, st, qc, e.embedding, top_k, fail)
             IN  [conn |-> s.conn, raised |-> s.raised,
                  embed_calls |-> e.calls,
                  results |-> {[found |-> f, chunks |-> FilterLow(f)] :
                                 f \in s.results}]

\* faulty variant: the content is cut without the length test
Source_cut(chunk) ==
    [content |-> Slice(chunk.chunk.content, 0, SourceLen - 1),
     document_id |-> chunk.chunk.document_id,
     chunk_index |-> chunk.chunk.chunk_index,
     similarity |-> Round3(chunk.similarity)]

\* one entry of "sources"
Source(chunk) ==
    [content |-> IF Len(chunk.chunk.content) > SourceLen
                 THEN Slice(chunk.chunk.content, 0, SourceLen) \o Ellipsis
                 ELSE chunk.chunk.content,
     document_id |-> chunk.chunk.document_id,
     chunk_index |-> chunk.chunk.chunk_index,
     similarity |-> Round3(chunk.similarity)]

\* faulty variant: no early return when nothing was retrieved
query_always_generates(chunks, gouts) ==
    LET g == generate(chunks, gouts)
    IN  [outcome |-> "ok", answer |-> g.answer,
         sources |-> [i \in 1..Len(chunks) |-> Source(chunks[i])],
         generator_called |-> TRUE, gen_calls |-> g.calls,
         gen_attempt |-> g.attempt]

\* query after retrieve returned chunks
query(chunks, gouts) ==
    IF chunks = <<>>
    THEN [outcome |-> "ok", answer |-> FallbackAnswer, sources |-> <<>>,
          generator_called |-> FALSE, gen_calls |-> 0, gen_attempt |-> 0]
    ELSE LET g == generate(chunks, gouts)
         IN  IF g.raised
             THEN [outcome |-> "raised", answer |-> "none", sources |-> <<>>,
                   generator_called |-> TRUE, gen_calls |-> g.calls,
                   gen_attempt |-> 0]
             ELSE [outcome |-> "ok", answer |-> g.answer,
                   sources |-> [i \in 1..Len(chunks) |-> Source(chunks[i])],
                   generator_called |-> TRUE, gen_calls |-> g.calls,
                   gen_attempt |-> g.attempt]

\* what the latest query-side call did.  retrieved tells whether retrieve
\* returned; found / chunks are similarity_search's and retrieve's results;
\* efirst / gfirst are the first attempt that does not fail (0: none) of
\* the embedding and of the generation inputs
NoQuery ==
    [op |-> "none", outcome |-> "ok", top_k |-> 0, retrieved |-> FALSE,
     found |-> <<>>, chunks |-> <<>>, answer |-> "none", sources |-> <<>>,
     generator_called |-> FALSE, embed_calls |-> 0, gen_calls |-> 0,
     gen_attempt |-> 0, embed_attempt |-> 0, embedding |-> "none",
     efirst |-> 0, gfirst |-> 0, context |-> <<>>]

\* pipeline.query(text, top_k), the text of class qc
Query(p) ==
    /\ pc[p] = "idle"
    /\ \E top_k \in TopKs : \E qc \in QueryClasses : \E fail \in BOOLEAN :
       \E eouts \in QueryEmbedInputs :
       LET r == retrieve(conn[p], store, qc, top_k, eouts, fail)
           base == [op |-> "query", top_k |-> top_k,
                    embed_calls |-> r.embed_calls,
                    efirst |-> FirstReturn(eouts)]
       IN  /\ conn' = [conn EXCEPT ![p] = r.conn]
           /\ IF r.raised
              THEN qlast' = ([outcome |-> "raised"] @@ base) @@ NoQuery
              ELSE \E f \in r.results :
                   \E gouts \in IF f.chunks = <<>>
                                THEN {<<"fail", "fail", "fail">>}
                                ELSE QueryGenInputs :
                   LET q == query(f.chunks, gouts)
                   IN  qlast' = (q @@ [retrieved |-> TRUE, found |-> f.found,
                                       chunks |-> f.chunks,
                                       gfirst |-> FirstReturn(gouts)]
                                   @@ base) @@ NoQuery
    /\ UNCHANGED <<store, indexExists, now, lockHolder, nextDoc, corpus, pc,
                   docIdx, ingested_count, curCall, seedLog,
                   docChunks, docMeta, last,
                   ck>>

\* generator.generate(query, context_chunks) called on its own
Generate ==
    /\ \E context \in {<<>>} \cup
                      {<<Scored(EmbeddingClass(r.content), r)>> : r \in store} :
       \E gouts \in [1..MaxAttempts -> AttemptOutcomes] :
       LET g == generate(context, gouts)
       IN  qlast' = [op |-> "generate",
                     outcome |-> IF g.raised THEN "raised" ELSE "ok",
                     answer |-> g.answer, gen_calls |-> g.calls,
                     gen_attempt |-> g.attempt, context |-> context,
                     generator_called |-> TRUE,
                     gfirst |-> FirstReturn(gouts)] @@ NoQuery
    /\ UNCHANGED <<store, indexExists, conn, now, lockHolder, nextDoc, corpus,
                   pc, docIdx, ingested_count, curCall, seedLog,
                   docChunks, docMeta,
                   last, ck>>

\* embeddings.embed_text(text) called on its own
EmbedText ==
    /\ \E eouts \in [1..MaxAttempts -> EmbedAttemptOutcomes] :
       LET e == embed_text(eouts)
       IN  qlast' = [op |-> "embed_text",
                     outcome |-> IF e.raised THEN "raised" ELSE "ok",
                     embed_calls |-> e.calls, embed_attempt |-> e.attempt,
                     embedding |-> e.embedding,
                     efirst |-> FirstReturn(eouts)] @@ NoQuery
    /\ UNCHANGED <<store, indexExists, conn, now, lockHolder, nextDoc, corpus,
                   pc, docIdx, ingested_count, curCall, seedLog,
                   docChunks, docMeta,
                   last, ck>>

(* ---------------------------- chunking, step by step ------------------ *)
\* no _chunk_text call yet
NoChunking ==
    [phase |-> "idle", text |-> <<>>, cfg |-> DefaultConfig, start |-> 0,
     windows |-> <<>>, full |-> FALSE, out |-> <<>>]

Others ==
    <<store, indexExists, conn, now, lockHolder, nextDoc, corpus, pc, docIdx,
      ingested_count, curCall, seedLog, docChunks, docMeta, last, qlast>>

\* _chunk_text(text) is called: chunks = [], start = 0
ChunkStart ==
    /\ ck.phase \in {"idle", "done"}
    /\ \E call \in ChunkCalls :
         ck' = [NoChunking EXCEPT !.phase = "loop", !.text = call.text,
                                  !.cfg = call.cfg]
    /\ UNCHANGED Others

\* _chunk_text is called on a 1200-character document
ChunkStartDocument ==
    /\ ck.phase \in {"idle", "done"}
    /\ \E call \in DocumentCalls :
         ck' = [NoChunking EXCEPT !.phase = "loop", !.text = call.text,
                                  !.cfg = call.cfg]
    /\ UNCHANGED Others

\* _chunk_text is called under a configuration of any overlap
ChunkStartAny ==
    /\ ck.phase \in {"idle", "done"}
    /\ \E call \in AnyCalls :
         ck' = [NoChunking EXCEPT !.phase = "loop", !.text = call.text,
                                  !.cfg = call.cfg]
    /\ UNCHANGED Others

\* one iteration of the while loop; the record of windows stops growing at
\* MaxWindows (full), the loop does not; a start that keeps moving backwards
\* is followed down to -MaxBack
ChunkStep ==
    /\ ck.phase = "loop"
    /\ ck.start < Len(ck.text)
    /\ ck.start >= -MaxBack
    /\ LET w == Window(ck.text, ck.start, ck.cfg.chunk_size, ck.cfg.overlap)
       IN  ck' = [ck EXCEPT
                    !.start = w.next,
                    !.windows = IF Len(@) < MaxWindows THEN Append(@, w) ELSE @,
                    !.full = Len(ck.windows) >= MaxWindows]
    /\ UNCHANGED Others

\* the loop has ended: the short chunks are removed, the rest returned
ChunkReturn ==
    /\ ck.phase = "loop"
    /\ ~(ck.start < Len(ck.text))
    /\ ck' = [ck EXCEPT
                !.phase = "done",
                !.out = KeepLongerThan(
                          [i \in 1..Len(ck.windows) |-> ck.windows[i].chunk],
                          ck.cfg.min_len)]
    /\ UNCHANGED Others

(* ---------------------------- seeder ----------------------------------- *)
\* faulty variant: the lock is taken in shared mode, which every session gets
pg_try_advisory_lock_shared(p) == TRUE

\* pg_try_advisory_lock(SEED_LOCK_ID) from session p: granted when no other
\* session holds the lock, never waits
pg_try_advisory_lock(p) == lockHolder \in {NoProc, p}

\* faulty variant: returns whether a row came back, not the row's value
acquire_advisory_lock_any_row(c, p) ==
    IF c.status = "INERROR"
    THEN [raised |-> TRUE, acquired |-> FALSE, holder |-> lockHolder]
    ELSE [raised |-> FALSE, acquired |-> TRUE,
          holder |-> IF pg_try_advisory_lock(p) THEN p ELSE lockHolder]

\* acquire_advisory_lock(conn, SEED_LOCK_ID) on connection c of p: raises on
\* an aborted transaction, otherwise reports whether the lock was granted
acquire_advisory_lock(c, p) ==
    IF c.status = "INERROR"
    THEN [raised |-> TRUE, acquired |-> FALSE, holder |-> lockHolder]
    ELSE IF pg_try_advisory_lock(p)
    THEN [raised |-> FALSE, acquired |-> TRUE, holder |-> p]
    ELSE [raised |-> FALSE, acquired |-> FALSE, holder |-> lockHolder]

\* release_advisory_lock(conn, SEED_LOCK_ID) on connection c of p: the
\* statement raises on an aborted transaction and unlocks nothing
release_advisory_lock(c, p) ==
    IF c.status = "INERROR" THEN [raised |-> TRUE, holder |-> lockHolder]
    ELSE [raised |-> FALSE,
          holder |-> IF lockHolder = p THEN NoProc ELSE lockHolder]

\* the seed_corpus_if_empty calls that have not returned or raised yet
Running == {j \in 1..Len(seedLog) : seedLog[j].outcome = "running"}

\* the call of p ends: it returned ret, or raised
Finish(log, p, outcome, ret) ==
    [log EXCEPT ![curCall[p]].outcome = outcome, ![curCall[p]].ret = ret]

\* seed_corpus_if_empty up to the decision: get_stats swallows a failed
\* count and returns {}, which reads as total_chunks = 0
SeedStart(p) ==
    /\ pc[p] = "idle"
    /\ Len(seedLog) < MaxSeedCalls
    /\ \E fail \in BOOLEAN :
       LET stats == get_stats(conn[p], store, fail)
           total_chunks == IF stats.outcome = "failed" THEN 0
                           ELSE stats.total_chunks
           call == [proc |-> p, startEmpty |-> store = {},
                    counted |-> stats.outcome = "ok", count |-> total_chunks,
                    concurrent |-> Running, foundHeld |-> FALSE,
                    attempted |-> 0, ingested |-> {}, changed |-> FALSE,
                    outcome |-> IF total_chunks = 0 THEN "running"
                                ELSE "returned",
                    ret |-> 0]
       IN  /\ conn' = [conn EXCEPT ![p] = stats.conn]
           /\ last' = StatsEvent(p, stats)
           /\ seedLog' = Append(seedLog, call)
           /\ curCall' = [curCall EXCEPT ![p] = Len(seedLog) + 1]
           /\ pc' = [pc EXCEPT ![p] = IF total_chunks = 0 THEN "acquire"
                                      ELSE "idle"]
    /\ UNCHANGED <<store, indexExists, now, lockHolder, nextDoc, corpus,
                   docIdx, ingested_count, docChunks, docMeta>>
    /\ UNCHANGED <<qlast, ck>>

\* seed_corpus: acquire_advisory_lock, and the early return when it is denied
SeedAcquire(p) ==
    /\ pc[p] = "acquire"
    /\ LET c1 == Begin(conn[p])
           a == acquire_advisory_lock(c1, p)
           held == ~a.raised /\ lockHolder \notin {NoProc, p}
           log == [seedLog EXCEPT ![curCall[p]].foundHeld = held]
       IN  /\ conn' = [conn EXCEPT ![p] = c1]
           /\ lockHolder' = a.holder
           /\ IF a.raised
              THEN \* the statement raises outside the try block
                   /\ pc' = [pc EXCEPT ![p] = "idle"]
                   /\ seedLog' = Finish(log, p, "raised", 0)
              ELSE IF a.acquired
              THEN /\ pc' = [pc EXCEPT ![p] = "load"]
                   /\ seedLog' = log
              ELSE /\ pc' = [pc EXCEPT ![p] = "idle"]
                   /\ seedLog' = Finish(log, p, "returned", 0)
    /\ UNCHANGED <<store, indexExists, now, nextDoc, corpus, docIdx,
                   ingested_count, curCall, docChunks, docMeta, last>>
    /\ UNCHANGED <<qlast, ck>>

\* RAGPipeline(db_session) and load_sample_documents() inside the try block;
\* either may raise, which the outer except turns into "return 0"
SeedLoad(p) ==
    /\ pc[p] = "load"
    /\ \E raises \in BOOLEAN :
          /\ pc' = [pc EXCEPT ![p] = IF raises THEN "release" ELSE "ingest"]
          /\ docIdx' = [docIdx EXCEPT ![p] = 1]
          /\ ingested_count' = [ingested_count EXCEPT ![p] = 0]
    /\ UNCHANGED <<store, indexExists, conn, now, lockHolder, nextDoc, corpus,
                   curCall, seedLog, docChunks, docMeta, last>>
    /\ UNCHANGED <<qlast, ck>>

\* metadata={"title": doc.get("title", ""), **doc.get("metadata", {})}
SampleMetadata == [title |-> "sample"]

\* one iteration of "for doc in documents": ingest_document under try/except
SeedIngest(p) ==
    /\ pc[p] = "ingest"
    /\ docIdx[p] <= Len(corpus)
    /\ LET content == corpus[docIdx[p]]
       IN  \E E \in [1..Len(Chunks[content]) -> EmbedOutcomes] :
           \E countFail \in BOOLEAN :
              DoIngest(p, content, SampleMetadata, E, countFail)
    /\ ingested_count' = [ingested_count EXCEPT
                            ![p] = IF last'.outcome = "ok" THEN @ + 1 ELSE @]
    /\ seedLog' = [seedLog EXCEPT
                     ![curCall[p]].attempted = @ + 1,
                     ![curCall[p]].changed = @ \/ last'.changed,
                     ![curCall[p]].ingested =
                         IF last'.outcome = "ok" THEN @ \cup {docIdx[p]} ELSE @]
    /\ docIdx' = [docIdx EXCEPT ![p] = @ + 1]
    /\ UNCHANGED <<now, lockHolder, corpus, pc, curCall>>
    /\ UNCHANGED <<qlast, ck>>

\* after the loop: pipeline.get_stats() for the log line
SeedStats(p) ==
    /\ pc[p] = "ingest"
    /\ docIdx[p] > Len(corpus)
    /\ \E fail \in BOOLEAN :
       LET stats == get_stats(conn[p], store, fail)
       IN  /\ conn' = [conn EXCEPT ![p] = stats.conn]
           /\ last' = StatsEvent(p, stats)
    /\ pc' = [pc EXCEPT ![p] = "release"]
    /\ UNCHANGED <<store, indexExists, now, lockHolder, nextDoc, corpus,
                   docIdx, ingested_count, curCall, seedLog,
                   docChunks, docMeta>>
    /\ UNCHANGED <<qlast, ck>>

\* the finally block, then the return
SeedRelease(p) ==
    /\ pc[p] = "release"
    /\ LET c1 == Begin(conn[p])
           r == release_advisory_lock(c1, p)
       IN  /\ conn' = [conn EXCEPT ![p] = c1]
           /\ lockHolder' = r.holder
           /\ seedLog' = IF r.raised THEN Finish(seedLog, p, "raised", 0)
                         ELSE Finish(seedLog, p, "returned", ingested_count[p])
    /\ pc' = [pc EXCEPT ![p] = "idle"]
    /\ UNCHANGED <<store, indexExists, now, nextDoc, corpus, docIdx,
                   ingested_count, curCall, docChunks, docMeta, last>>
    /\ UNCHANGED <<qlast, ck>>

(* ---------------------------- specification ---------------------------- *)
\* init_db has run: the table is empty and the ivfflat index was created
Init ==
    /\ store = {}
    /\ indexExists = TRUE
    /\ conn = [p \in Procs |-> IdleConn]
    /\ now = 0
    /\ lockHolder = NoProc
    /\ nextDoc = 1
    /\ corpus \in Corpora
    /\ pc = [p \in Procs |-> "idle"]
    /\ docIdx = [p \in Procs |-> 1]
    /\ ingested_count = [p \in Procs |-> 0]
    /\ curCall = [p \in Procs |-> 0]
    /\ seedLog = <<>>
    /\ docChunks = [d \in DocIds |-> <<>>]
    /\ docMeta = [d \in DocIds |-> NoMetadata]
    /\ last = NoEvent
    /\ qlast = NoQuery
    /\ ck = NoChunking

Seed(p) ==
    \/ SeedStart(p)
    \/ SeedAcquire(p)
    \/ SeedLoad(p)
    \/ SeedIngest(p)
    \/ SeedStats(p)
    \/ SeedRelease(p)

Pipeline(p) ==
    \/ Ingest(p)
    \/ DeleteDocument(p)
    \/ GetDocument(p)
    \/ GetStats(p)

Next ==
    \/ \E p \in Procs : Seed(p)
    \/ \E p \in Procs : Pipeline(p)
    \/ Tick

\* every process seeds and serves pipeline calls on its own connection
Spec == Init /\ [][Next]_vars

\* the processes only start up: nothing but seed_corpus_if_empty runs
SeedNext == \E p \in Procs : Seed(p)

SeedSpec == Init /\ [][SeedNext]_vars

\* one pipeline object serves calls one after the other
PipelineInit == Init /\ corpus = <<TextTwo, TextOne>>

PipelineNext == Pipeline("p1") \/ Tick

PipelineSpec == PipelineInit /\ [][PipelineNext]_vars

\* one pipeline ingests documents, small and large, one after the other
IndexNext == Ingest("p1") \/ IngestLong("p1") \/ DeleteDocument("p1")

IndexSpec == PipelineInit /\ [][IndexNext]_vars

\* one pipeline ingests documents with caller metadata, deletes and reads
MetadataNext ==
    \/ IngestWithMetadata("p1")
    \/ DeleteDocument("p1")
    \/ GetDocument("p1")

MetadataSpec == PipelineInit /\ [][MetadataNext]_vars

\* one pipeline answers queries over what was ingested
QueryNext == Ingest("p1") \/ Query("p1") \/ Generate \/ EmbedText

QuerySpec == PipelineInit /\ [][QueryNext]_vars

\* _chunk_text is called on one text after the other
ChunkNext == ChunkStart \/ ChunkStep \/ ChunkReturn

ChunkSpec == PipelineInit /\ [][ChunkNext]_vars

\* a call that has started is not abandoned in the middle of its loop
ChunkFairSpec == ChunkSpec /\ WF_vars(ChunkStep) /\ WF_vars(ChunkReturn)

\* the same calls, and calls on 1200-character documents
DocumentNext == ChunkNext \/ ChunkStartDocument

DocumentSpec == PipelineInit /\ [][DocumentNext]_vars

\* _chunk_text under every configuration the settings admit
AnyConfigNext == ChunkNext \/ ChunkStartAny

AnyConfigSpec == PipelineInit /\ [][AnyConfigNext]_vars

TypeOK ==
    /\ nextDoc \in 1..(MaxDocs + 1)
    /\ lockHolder \in Procs \cup {NoProc}
    /\ \A p \in Procs : conn[p].status \in {"IDLE", "INTRANS", "INERROR"}

(* ---------------------------- claims ----------------------------------- *)
Calls == 1..Len(seedLog)
RowsOf(st, d) == {r \in st : r.document_id = d}
Contents(rows) == [i \in 1..Len(rows) |-> rows[i].content]

\* C1: of two seed_corpus_if_empty calls that both start on the empty store
\* and overlap in time, at most one ingests sample documents.
C1_SeededOnce ==
    \A i, j \in Calls :
        (/\ i < j
         /\ i \in seedLog[j].concurrent
         /\ seedLog[i].startEmpty
         /\ seedLog[j].startEmpty)
        => ~(seedLog[i].ingested # {} /\ seedLog[j].ingested # {})

C3_LockReleasedOnExit ==
    \A p \in Procs : pc[p] = "idle" => lockHolder # p

\* C4: a seed call whose try-acquire found the lock held by another session
\* has already returned 0, with no document attempted and no row changed, and
\* the try-acquire step is enabled whoever holds the lock.
C4_DeniedReturnsAtOnce ==
    /\ \A j \in Calls :
          seedLog[j].foundHeld
          => /\ seedLog[j].outcome = "returned"
             /\ seedLog[j].ret = 0
             /\ seedLog[j].attempted = 0
             /\ ~seedLog[j].changed
    /\ \A p \in Procs : pc[p] = "acquire" => ENABLED SeedAcquire(p)

C4_Witness ==
    \E j \in Calls :
        /\ seedLog[j].foundHeld
        /\ seedLog[j].outcome = "returned"
        /\ lockHolder \notin {NoProc, seedLog[j].proc}
        /\ pc[lockHolder] = "ingest"

\* C5: of every batch handed to batch_add_chunks, the committed rows are
\* either all of its chunks or none.
C5_BatchAllOrNothing ==
    \A d \in DocIds :
        \/ RowsOf(store, d) = {}
        \/ Cardinality(RowsOf(store, d)) = Len(docChunks[d])

\* C6 as stated: after an ingest_document call that raised, the committed
\* rows are those from before the call and none belongs to its document.
C6_RaiseLeavesStore ==
    (last.op = "ingest" /\ last.outcome = "raised")
    => ~last.changed /\ RowsOf(store, last.doc) = {}

\* C6 amended: an ingest_document call that raised on an embedding or on the
\* batch insert left the committed rows as they were, none of them its own,
\* and on an embedding failure it inserted nothing at all; a call that raised
\* after the insert left all of its chunks committed.
C6_NoPartialOnRaise ==
    (last.op = "ingest" /\ last.outcome = "raised")
    => /\ last.cause \in {"embed", "insert"}
          => ~last.changed /\ RowsOf(store, last.doc) = {}
       /\ last.cause = "embed"
          => RowsOf(conn[last.proc].pending, last.doc) = {}
       /\ last.cause \in {"count", "index"}
          => Cardinality(RowsOf(store, last.doc)) = last.ret_count

C6_Witness ==
    /\ last.op = "ingest"
    /\ last.outcome = "raised"
    /\ last.cause = "insert"
    /\ RowsOf(conn[last.proc].pending, last.doc) # {}
    /\ store # {}

\* C7: get_document right after the successful ingest_document of the same
\* document returns the chunker's chunks, in chunk_index order.
C7_GetAfterIngestInOrder ==
    (last.op = "get_document" /\ last.outcome = "ok" /\ last.follows = "ingest")
    => /\ Contents(last.chunks) = docChunks[last.doc]
       /\ \A i \in 1..Len(last.chunks) : last.chunks[i].chunk_index = i - 1

\* C8: get_document right after a delete_document of the same document that
\* reached the store returns no chunk.
C8_GetAfterDeleteEmpty ==
    (last.op = "get_document" /\ last.outcome = "ok" /\ last.follows = "delete")
    => last.chunks = <<>> /\ last.ret_count = 0

C8_Witness ==
    /\ last.op = "get_document"
    /\ last.outcome = "ok"
    /\ last.follows = "delete"
    /\ last.follows_count > 0
    /\ last.chunks = <<>>

\* C9: delete_document returns true exactly when it removed at least one row.
C9_DeleteReportsDeletion ==
    last.op = "delete" => (last.ret_bool <=> last.ret_count > 0)

\* C10: delete_document, get_document and get_stats do not raise; when the
\* store operation failed they returned false, no chunks and no count, and
\* the committed rows are as before.
C10_SafeDefaults ==
    last.op \in {"delete", "get_document", "get_stats"}
    => /\ last.outcome \in {"ok", "failed"}
       /\ last.outcome = "failed"
          => /\ ~last.ret_bool
             /\ last.ret_count = 0
             /\ last.chunks = <<>>
             /\ ~last.changed

C10_Witness ==
    /\ last.op = "delete"
    /\ last.outcome = "failed"
    /\ RowsOf(store, last.doc) # {}

\* seq a is b with some entries left out, the others in b's order
IsSubSeq(a, b) ==
    \E f \in [1..Len(a) -> 1..Len(b)] :
        /\ \A i, j \in 1..Len(a) : i < j => f[i] < f[j]
        /\ \A i \in 1..Len(a) : a[i] = b[f[i]]

\* C11: a query whose retrieval returned no chunk returns the fallback
\* answer with no sources, without raising and without calling the
\* generator or the language model.
C11_NoChunksFallback ==
    (qlast.op = "query" /\ qlast.retrieved /\ qlast.chunks = <<>>)
    => /\ qlast.outcome = "ok"
       /\ qlast.answer = FallbackAnswer
       /\ qlast.sources = <<>>
       /\ ~qlast.generator_called
       /\ qlast.gen_calls = 0

C11_Witness ==
    /\ qlast.op = "query"
    /\ qlast.retrieved
    /\ qlast.chunks = <<>>
    /\ qlast.found # <<>>
    /\ qlast.outcome = "ok"

\* C12: every chunk retrieve returns (and so every source of a query) has a
\* similarity above 0.1; a search result whose similarity is exactly 0.1 or
\* is not a value is not among them.
C12_AboveThreshold ==
    qlast.op = "query"
    => /\ \A i \in DOMAIN qlast.chunks :
            qlast.chunks[i].similarity > MinSimilarity
       /\ \A i \in DOMAIN qlast.found :
            qlast.found[i].similarity \in {MinSimilarity, NoSim}
            => \A j \in DOMAIN qlast.chunks : qlast.chunks[j] # qlast.found[i]

C12_Witness ==
    /\ qlast.op = "query"
    /\ qlast.retrieved
    /\ \E i \in DOMAIN qlast.found : qlast.found[i].similarity = MinSimilarity
    /\ \E i \in DOMAIN qlast.found : qlast.found[i].similarity = NoSim

\* C13: what retrieve returns is similarity_search's result with entries
\* left out and the order kept, its similarities never increase, and it is
\* no longer than top_k.
C13_OrderedSubsequence ==
    (qlast.op = "query" /\ qlast.retrieved)
    => /\ IsSubSeq(qlast.chunks, qlast.found)
       /\ \A i, j \in DOMAIN qlast.chunks :
            i < j => qlast.chunks[i].similarity >= qlast.chunks[j].similarity
       /\ Len(qlast.chunks) <= qlast.top_k

C13_Witness ==
    /\ qlast.op = "query"
    /\ qlast.retrieved
    /\ Len(qlast.found) = 2
    /\ Len(qlast.chunks) = 2
    /\ qlast.chunks[1].similarity > qlast.chunks[2].similarity

\* C18: generate with an empty context returns the fallback answer and
\* invokes the model not even once.
C18_EmptyContextNoModelCall ==
    (qlast.op = "generate" /\ qlast.context = <<>>)
    => /\ qlast.outcome = "ok"
       /\ qlast.answer = FallbackAnswer
       /\ qlast.gen_calls = 0

C18_Witness ==
    /\ qlast.op = "generate"
    /\ qlast.context = <<>>
    /\ qlast.answer = FallbackAnswer
    /\ qlast.gfirst = 0

\* C19: generate on a non-empty context and embed_text invoke the model at
\* most MaxAttempts times, stop at the first attempt that returns and hand
\* back its result, and raise, returning nothing, when every attempt failed.
C19_BoundedRetries ==
    /\ (qlast.op = "generate" /\ qlast.context # <<>>)
       => /\ qlast.gen_calls \in 1..MaxAttempts
          /\ qlast.gfirst > 0
             => /\ qlast.outcome = "ok"
                /\ qlast.gen_calls = qlast.gfirst
                /\ qlast.gen_attempt = qlast.gfirst
                /\ qlast.answer = "generation"
          /\ qlast.gfirst = 0
             => /\ qlast.outcome = "raised"
                /\ qlast.gen_calls = MaxAttempts
                /\ qlast.answer = "none"
    /\ qlast.op = "embed_text"
       => /\ qlast.embed_calls \in 1..MaxAttempts
          /\ qlast.efirst > 0
             => /\ qlast.outcome = "ok"
                /\ qlast.embed_calls = qlast.efirst
                /\ qlast.embed_attempt = qlast.efirst
                /\ qlast.embedding # "none"
          /\ qlast.efirst = 0
             => /\ qlast.outcome = "raised"
                /\ qlast.embed_calls = MaxAttempts
                /\ qlast.embedding = "none"
    /\ qlast.op = "query"
       => /\ qlast.embed_calls \in 1..MaxAttempts
          /\ qlast.gen_calls \in 0..MaxAttempts
          /\ qlast.efirst = 0 => qlast.outcome = "raised"
          /\ (qlast.chunks # <<>> /\ qlast.gfirst = 0)
             => qlast.outcome = "raised" /\ qlast.answer = "none"

C19_Witness ==
    /\ qlast.op = "embed_text"
    /\ qlast.outcome = "raised"
    /\ qlast.embed_calls = MaxAttempts
    /\ qlast.efirst = 0

\* C20 as stated: a query returns one source per retrieved chunk, in
\* retrieval order, and no source's content is longer than the cut length.
C20_SourcesCut ==
    (qlast.op = "query" /\ qlast.outcome = "ok")
    => /\ Len(qlast.sources) = Len(qlast.chunks)
       /\ \A i \in DOMAIN qlast.sources :
            /\ qlast.sources[i].document_id = qlast.chunks[i].chunk.document_id
            /\ qlast.sources[i].chunk_index = qlast.chunks[i].chunk.chunk_index
            /\ Len(qlast.sources[i].content) <= SourceLen

\* C20 amended: a query returns one source per retrieved chunk, in retrieval
\* order; a source's content is the chunk's content when that is no longer
\* than the cut length, and otherwise its first cut-length characters
\* followed by "...".
C20_SourcesCutWithEllipsis ==
    (qlast.op = "query" /\ qlast.outcome = "ok")
    => /\ Len(qlast.sources) = Len(qlast.chunks)
       /\ \A i \in DOMAIN qlast.sources :
            LET src == qlast.sources[i]
                content == qlast.chunks[i].chunk.content
            IN  /\ src.document_id = qlast.chunks[i].chunk.document_id
                /\ src.chunk_index = qlast.chunks[i].chunk.chunk_index
                /\ Len(content) <= SourceLen => src.content = content
                /\ Len(content) > SourceLen
                   => /\ Len(src.content) = SourceLen + Len(Ellipsis)
                      /\ SubSeq(src.content, 1, SourceLen)
                           = SubSeq(content, 1, SourceLen)
                      /\ SubSeq(src.content, SourceLen + 1, Len(src.content))
                           = Ellipsis

C20_Witness ==
    /\ qlast.op = "query"
    /\ qlast.outcome = "ok"
    /\ Len(qlast.sources) = 2
    /\ \E i \in DOMAIN qlast.sources :
         Len(qlast.sources[i].content) = SourceLen + Len(Ellipsis)
    /\ \E i \in DOMAIN qlast.sources :
         Len(qlast.sources[i].content) <= SourceLen

\* the blanks strip() removes from the front of s
LeadBlanks(s) ==
    LET keep == {i \in 1..Len(s) : ~IsSpace(s[i])}
    IN  IF keep = {} THEN Len(s)
        ELSE (CHOOSE i \in keep : \A j \in keep : i <= j) - 1

\* the positions of the text that window w took, that its chunk holds after
\* strip(), and that strip() trimmed away
Taken(w) == (w.lo + 1)..(w.lo + Len(w.raw))
Held(w) == (w.lo + LeadBlanks(w.raw) + 1)..(w.lo + LeadBlanks(w.raw) + Len(w.chunk))
Trimmed(w) == Taken(w) \ Held(w)
Kept(w) == w.chunk # <<>> /\ Len(w.chunk) > ck.cfg.min_len
Windows == {ck.windows[i] : i \in 1..Len(ck.windows)}
Returned == ck.phase = "done" /\ ~ck.full

\* C14: every _chunk_text call with 0 <= overlap < chunk_size leaves its
\* loop and returns.
C14_ChunkingTerminates == (ck.phase = "loop") ~> (ck.phase = "done")

\* C15 as stated: when _chunk_text has returned, every character of the text
\* is held by a returned chunk or is a blank trimmed at a chunk's edge, and
\* the returned chunks are in document order.
C15_ChunksCoverText ==
    Returned
    => /\ \A i \in 1..Len(ck.text) :
            \/ \E w \in Windows : Kept(w) /\ i \in Held(w)
            \/ \E w \in Windows : i \in Trimmed(w)
       /\ \A i, j \in 1..Len(ck.windows) :
            (i < j /\ Kept(ck.windows[i]) /\ Kept(ck.windows[j]))
            => ck.windows[i].lo <= ck.windows[j].lo

\* C15 amended: when _chunk_text has returned, every character of the text
\* is held by a returned chunk, or is a blank trimmed at a chunk's edge, or
\* lies in a window whose trimmed chunk was dropped for being too short; the
\* returned chunks are the trimmed windows that were not dropped, in
\* document order.
C15_KeptWindowsCoverText ==
    Returned
    => /\ \A i \in 1..Len(ck.text) :
            \/ \E w \in Windows : Kept(w) /\ i \in Held(w)
            \/ \E w \in Windows : i \in Trimmed(w)
            \/ \E w \in Windows : ~Kept(w) /\ i \in Held(w)
       /\ \A i, j \in 1..Len(ck.windows) :
            (i < j /\ Kept(ck.windows[i]) /\ Kept(ck.windows[j]))
            => ck.windows[i].lo <= ck.windows[j].lo
       /\ ck.out = KeepLongerThan(
                     [i \in 1..Len(ck.windows) |-> ck.windows[i].chunk],
                     ck.cfg.min_len)
       /\ \A w \in Windows :
            w.chunk = SubSeq(ck.text, w.lo + LeadBlanks(w.raw) + 1,
                             w.lo + LeadBlanks(w.raw) + Len(w.chunk))

C15_Witness ==
    /\ Returned
    /\ \E w \in Windows : Kept(w)
    /\ \E w \in Windows : ~Kept(w) /\ w.chunk # <<>>
    /\ \E w \in Windows : Trimmed(w) # {}
    /\ Len(ck.out) >= 2

Default1200 ==
    /\ ck.phase = "done"
    /\ ck.cfg = DefaultConfig
    /\ Len(ck.text) = 1200

\* chunk b begins with the last n characters of chunk a, for some n in 1..m
SharesTail(a, b, m) ==
    \E n \in 1..Min(m, Min(Len(a), Len(b))) :
        SubSeq(b, 1, n) = SubSeq(a, Len(a) - n + 1, Len(a))

\* each window starts where the window before it ended, minus the overlap
OverlapStep ==
    \A i \in 1..(Len(ck.windows) - 1) :
        ck.windows[i + 1].start = ck.windows[i].end - ck.cfg.overlap

\* C16 as stated: each window starts overlap characters before the end of
\* the window before it, and a 1200-character document under chunk_size 500
\* and overlap 50 comes back as exactly 3 chunks of at least 50 characters,
\* the second beginning with the last (at most 50) characters of the first.
C16_ThreeChunks ==
    /\ OverlapStep
    /\ Default1200
       => /\ Len(ck.out) = 3
          /\ \A i \in 1..Len(ck.out) : Len(ck.out[i]) >= 50
          /\ SharesTail(ck.out[1], ck.out[2], 50)

\* C16 amended: each window starts overlap characters before the end of the
\* window before it, and a 1200-character document without '.', newline or
\* blank under chunk_size 500 and overlap 50 comes back as exactly 3 chunks
\* of at least 50 characters, the second beginning with the last 50
\* characters of the first.
C16_ThreeChunksPlainText ==
    /\ OverlapStep
    /\ (/\ Default1200
        /\ \A i \in 1..Len(ck.text) : ck.text[i] \notin {".", "\n", " ", "\t"})
       => /\ Len(ck.out) = 3
          /\ \A i \in 1..Len(ck.out) : Len(ck.out[i]) >= 50
          /\ SubSeq(ck.out[2], 1, 50)
               = SubSeq(ck.out[1], Len(ck.out[1]) - 49, Len(ck.out[1]))

C16_Witness ==
    /\ Default1200
    /\ ck.text = Text1200
    /\ Len(ck.out) = 3
    /\ Len(ck.windows) = 3

\* C17: the ivfflat index exists only while the table holds at least the
\* threshold number of chunks.
C17_IndexOnlyWhenLarge == indexExists => Cardinality(store) >= IndexThreshold

\* C21: under any chunk_size > 0 and overlap >= 0, every iteration of the
\* chunk loop takes a window of at least one character and moves the start
\* of the next window at least one character past its own start.
C21_WindowAdvances ==
    \A w \in Windows : w.raw # <<>> /\ w.next >= w.start + 1

\* p is between a granted acquire_advisory_lock and release_advisory_lock
InSection(p) == pc[p] \in {"load", "ingest", "release"}

\* C22: at most one process is inside the seeding critical section, and the
\* process inside it holds the lock throughout: no other process's denied
\* acquire, nor anything else it does, frees the lock under it.
C22_SeedingExclusive ==
    /\ \A p, q \in Procs : p # q => ~(InSection(p) /\ InSection(q))
    /\ \A p \in Procs : InSection(p) => lockHolder = p
    /\ \A j \in Calls :
          seedLog[j].foundHeld
            => /\ seedLog[j].outcome = "returned"
               /\ seedLog[j].attempted = 0

\* a call was denied the lock and has returned while the process that holds
\* the lock is still seeding
C22_Witness ==
    \E j \in Calls : \E q \in Procs :
        /\ seedLog[j].foundHeld
        /\ seedLog[j].outcome = "returned"
        /\ q # seedLog[j].proc
        /\ pc[q] = "ingest"
        /\ lockHolder = q
        /\ pc[seedLog[j].proc] = "idle"

\* C23: a seed_corpus_if_empty call attempts a sample document only if its
\* get_stats read the chunk count and read it as zero; a call whose count
\* could not be read, or was read as positive, ingests nothing and changes
\* no row.
C23_SeedsOnlyOnCountedZero ==
    \A j \in Calls :
        (~seedLog[j].counted \/ seedLog[j].count > 0)
        => /\ seedLog[j].attempted = 0
           /\ seedLog[j].ingested = {}
           /\ ~seedLog[j].changed

\* a call whose count could not be read, on a store that is in fact empty,
\* has ended
C23_Witness ==
    \E j \in Calls :
        /\ ~seedLog[j].counted
        /\ seedLog[j].startEmpty
        /\ seedLog[j].outcome # "running"

\* C24: a seed_corpus call in which the ingestion of a sample document failed
\* still attempts every sample document and returns the number of documents
\* whose ingestion succeeded.
C24_FailureDoesNotAbortBatch ==
    \A j \in Calls :
        (/\ seedLog[j].outcome # "running"
         /\ Cardinality(seedLog[j].ingested) < seedLog[j].attempted)
        => /\ seedLog[j].attempted = Len(corpus)
           /\ seedLog[j].outcome = "returned"
           /\ seedLog[j].ret = Cardinality(seedLog[j].ingested)

\* C25: an ingest_document call reaches create_vector_index only if its batch
\* insert took the chunk count from below the threshold to the threshold or
\* above.
C25_RebuildOnlyOnCrossing ==
    (last.op = "ingest" /\ last.cause = "index")
    => /\ Cardinality(store) >= IndexThreshold
       /\ Cardinality(store) - last.ret_count < IndexThreshold

\* the keys ingest_document sets itself
DerivedKeys == {"document_id", "chunk_index"}

\* C26: the stored chunks of every document carry in their metadata the
\* chunk_index values 0, 1, ..., n-1 in chunker order and the document_id of
\* their row, whatever the caller's metadata says under these two keys, and
\* every other key of the caller's metadata with the caller's value.
C26_ChunkMetadata ==
    \A d \in DocIds :
        LET rows == RowsOf(store, d)
        IN  /\ {r.metadata.chunk_index : r \in rows}
                  = 0..(Cardinality(rows) - 1)
            /\ \A r \in rows :
                  /\ r.metadata.document_id = r.document_id
                  /\ r.metadata.chunk_index < Len(docChunks[d])
                  /\ r.content = docChunks[d][r.metadata.chunk_index + 1]
                  /\ DOMAIN r.metadata = DOMAIN docMeta[d] \cup DerivedKeys
                  /\ \A k \in DOMAIN docMeta[d] \ DerivedKeys :
                        r.metadata[k] = docMeta[d][k]

\* a document of several chunks is stored whose caller metadata had its own
\* document_id, chunk_index and title
C26_Witness ==
    \E d \in DocIds :
        /\ Cardinality(RowsOf(store, d)) >= 2
        /\ DerivedKeys \subseteq DOMAIN docMeta[d]
        /\ "title" \in DOMAIN docMeta[d]

\* C27: every committed chunk has content that is non-empty, equal to its
\* trimmed form and not shorter than the minimum chunk length; and an
\* ingest_document call whose text yields no chunk, on a store that answers
\* its statements, returns its document id and stores no chunk under it.
C27_StoredChunksWellFormed ==
    /\ \A r \in store :
          /\ r.content # <<>>
          /\ Strip(r.content) = r.content
          /\ Len(r.content) >= MinChunkLen
    /\ (last.op = "ingest" /\ last.ret_count = 0 /\ last.cause # "count")
       => /\ last.outcome = "ok"
          /\ RowsOf(store, last.doc) = {}
====
